---------------------------- MODULE Spec2Model ----------------------------
(***************************************************************************)
(* A model of the mail relay API (main.go): the token-bucket RateLimiter,  *)
(* its periodic cleanup goroutine, and the HTTP handler returned by        *)
(* GetMailHandler, one goroutine per request in flight.                    *)
(*                                                                         *)
(* Go strings are byte sequences: a string is modelled as a sequence of    *)
(* byte values (0..255).  Time is counted in clock ticks, TicksPerSec of   *)
(* them to the second.                                                     *)
(***************************************************************************)
EXTENDS Integers, Sequences, FiniteSets, TLC

VARIABLES
    maxPerSec,     \* RateLimiter.maxPerSec
    bucketSize,    \* RateLimiter.bucketSize
    tokens,        \* RateLimiter.tokens: map from identity to token count
    lastRefill,    \* RateLimiter.lastRefill: map from identity to time
    mutex,         \* RateLimiter.mutex: its holder, or Unlocked
    now,           \* the wall clock read by time.Now(), in ticks
    tickBuffered,  \* whether ticker.C holds an undelivered tick
    cpc,           \* position of the periodicCleanup goroutine
    traffic,       \* the requests the clients of this run may send
    pc,            \* position of each handler goroutine
    req,           \* the request each handler goroutine serves
    creds,         \* username and password of the request served
    allowed,       \* result of rateLimiter.Allow for the request served
    log,           \* per request: the Allow calls, relay attempts, responses
    hist,          \* per bucket: the Allow calls since it was created
    window         \* per identity: the calls allowed since the window's start

vars == <<maxPerSec, bucketSize, tokens, lastRefill, mutex, now, tickBuffered,
          cpc, traffic, pc, req, creds, allowed, log, hist, window>>

limiter == <<maxPerSec, bucketSize, tokens, lastRefill>>

---------------------------------------------------------------------------
(* Bounds of the model *)

\* clock resolution: ticks per second
TicksPerSec == 2
\* the clock is read at most MaxTicks ticks after a multiple of the cleanup interval
MaxTicks == 2
\* the clock runs for MaxIntervals cleanup intervals
MaxIntervals == 2
\* the rate of the limiter in the runs that do not use main's
LowRate == 1

---------------------------------------------------------------------------
(* Strings *)

Chars == <<" ", "!", "\"", "#", "$", "%", "&", "'", "(", ")", "*", "+", ",", "-", ".", "/", "0", "1", "2", "3", "4", "5", "6", "7", "8", "9", ":", ";", "<", "=", ">", "?", "@", "A", "B", "C", "D", "E", "F", "G", "H", "I", "J", "K", "L", "M", "N", "O", "P", "Q", "R", "S", "T", "U", "V", "W", "X", "Y", "Z", "[", "\\", "]", "^", "_", "BACKQUOTE", "a", "b", "c", "d", "e", "f", "g", "h", "i", "j", "k", "l", "m", "n", "o", "p", "q", "r", "s", "t", "u", "v", "w", "x", "y", "z", "{", "|", "}", "~">>

\* the byte of a printable ASCII character
Ord(c) == 31 + (CHOOSE i \in 1..Len(Chars) : Chars[i] = c)

\* the Go string spelled by a sequence of printable characters
Str(cs) == [i \in 1..Len(cs) |-> Ord(cs[i])]

TAB == 9
LF == 10
FF == 12
CR == 13

\* s[from..] (1-based), the Go slice s[from-1:]
Drop(s, n) == SubSeq(s, n + 1, Len(s))

\* strings.HasPrefix
HasPrefix(s, prefix) ==
    /\ Len(s) >= Len(prefix)
    /\ SubSeq(s, 1, Len(prefix)) = prefix

\* whether sub occurs in s at (1-based) position i
MatchAt(s, sub, i) ==
    /\ i + Len(sub) - 1 <= Len(s)
    /\ SubSeq(s, i, i + Len(sub) - 1) = sub

\* strings.Index, 1-based; 0 when sub does not occur
Index(s, sub) ==
    IF \E i \in 1..(Len(s) + 1) : MatchAt(s, sub, i)
    THEN CHOOSE i \in 1..(Len(s) + 1) :
            /\ MatchAt(s, sub, i)
            /\ \A j \in 1..(i - 1) : ~MatchAt(s, sub, j)
    ELSE 0

\* strings.Contains
Contains(s, sub) == Index(s, sub) # 0

RECURSIVE Join(_, _)
\* strings.Join
Join(elems, sep) ==
    IF Len(elems) = 0 THEN <<>>
    ELSE IF Len(elems) = 1 THEN elems[1]
    ELSE elems[1] \o sep \o Join(Tail(elems), sep)

---------------------------------------------------------------------------
(* base64.StdEncoding.DecodeString *)

\* the 6-bit value of a character of the standard alphabet, -1 for any other
B64Value(b) ==
    IF b >= 65 /\ b <= 90 THEN b - 65
    ELSE IF b >= 97 /\ b <= 122 THEN b - 97 + 26
    ELSE IF b >= 48 /\ b <= 57 THEN b - 48 + 52
    ELSE IF b = 43 THEN 62
    ELSE IF b = 47 THEN 63
    ELSE -1

PadChar == 61

\* the decoder skips CR and LF wherever they stand
StripNewlines(s) == SelectSeq(s, LAMBDA b : b # CR /\ b # LF)

\* one quantum of four characters: [ok, bytes]
DecodeQuantum(q, last) ==
    LET a == B64Value(q[1])
        b == B64Value(q[2])
        c == B64Value(q[3])
        d == B64Value(q[4])
    IN  IF a < 0 \/ b < 0 THEN [ok |-> FALSE, bytes |-> <<>>]
        ELSE IF c >= 0 /\ d >= 0
        THEN [ok |-> TRUE,
              bytes |-> << a * 4 + b \div 16,
                           (b % 16) * 16 + c \div 4,
                           (c % 4) * 64 + d >>]
        ELSE IF last /\ c >= 0 /\ q[4] = PadChar
        THEN [ok |-> TRUE,
              bytes |-> << a * 4 + b \div 16, (b % 16) * 16 + c \div 4 >>]
        ELSE IF last /\ q[3] = PadChar /\ q[4] = PadChar
        THEN [ok |-> TRUE, bytes |-> << a * 4 + b \div 16 >>]
        ELSE [ok |-> FALSE, bytes |-> <<>>]

RECURSIVE DecodeQuanta(_)
DecodeQuanta(s) ==
    IF Len(s) = 0 THEN [ok |-> TRUE, bytes |-> <<>>]
    ELSE IF Len(s) < 4 THEN [ok |-> FALSE, bytes |-> <<>>]
    ELSE LET q == DecodeQuantum(SubSeq(s, 1, 4), Len(s) = 4)
             rest == DecodeQuanta(Drop(s, 4))
         IN  IF q.ok /\ rest.ok
             THEN [ok |-> TRUE, bytes |-> q.bytes \o rest.bytes]
             ELSE [ok |-> FALSE, bytes |-> <<>>]

\* [ok, bytes]: ok is err == nil
DecodeString(s) == DecodeQuanta(StripNewlines(s))

---------------------------------------------------------------------------
(* Go maps *)

EmptyMap == [k \in {} |-> 0]

\* m[k] = v
Put(m, k, v) == [x \in (DOMAIN m) \cup {k} |-> IF x = k THEN v ELSE m[x]]

\* m[k] of a map of integers: the zero value when k is absent
Get(m, k) == IF k \in DOMAIN m THEN m[k] ELSE 0

\* delete(m, k) for every k of ks
Delete(m, ks) == [x \in (DOMAIN m) \ ks |-> m[x]]

---------------------------------------------------------------------------
(* RateLimiter *)

\* main: NewRateLimiter(10)
DefaultMaxPerSec == 10

\* 30 * time.Minute
cleanupInterval == 30 * 60 * TicksPerSec

\* time.Hour
Hour == 60 * 60 * TicksPerSec

\* NewRateLimiter: the fields of the limiter it returns
NewRateLimiter(rate) ==
    [tokens |-> EmptyMap, lastRefill |-> EmptyMap,
     maxPerSec |-> rate, bucketSize |-> rate * 2]

\* a min that forgets the cap
minLeft(a, b) == a

min(a, b) == IF a < b THEN a ELSE b

\* int(x / y) for the float x / y: the conversion truncates toward zero
Trunc(x, y) == IF x >= 0 THEN x \div y ELSE -((-x) \div y)

\* a refill that takes the elapsed ticks for seconds
TokensToAddPerTick(ticks) == ticks * maxPerSec

\* int(elapsed * float64(rl.maxPerSec)), elapsed the seconds in `ticks` ticks
TokensToAdd(ticks) == Trunc(ticks * maxPerSec, TicksPerSec)

\* whether this call of Allow refills the bucket of user
Refills(user, t) ==
    /\ user \in DOMAIN lastRefill
    /\ TokensToAdd(t - lastRefill[user]) > 0

\* an Allow that refills without restarting the refill clock
RefillBucketKeepClock(user, t) ==
    IF user \notin DOMAIN lastRefill
    THEN [tokens |-> Put(tokens, user, bucketSize),
          lastRefill |-> Put(lastRefill, user, t)]
    ELSE [tokens |-> Put(tokens, user,
                         min(Get(tokens, user) + TokensToAdd(t - lastRefill[user]),
                             bucketSize)),
          lastRefill |-> lastRefill]

\* an Allow that makes new maps for an identity it sees for the first time
RefillBucketAlone(user, t) ==
    IF user \notin DOMAIN lastRefill
    THEN [tokens |-> Put(EmptyMap, user, bucketSize),
          lastRefill |-> Put(EmptyMap, user, t)]
    ELSE IF TokensToAdd(t - lastRefill[user]) > 0
    THEN [tokens |-> Put(tokens, user,
                         min(Get(tokens, user) + TokensToAdd(t - lastRefill[user]),
                             bucketSize)),
          lastRefill |-> Put(lastRefill, user, t)]
    ELSE [tokens |-> tokens, lastRefill |-> lastRefill]

\* an Allow that restarts the refill clock at every call
RefillBucketResetClock(user, t) ==
    IF user \notin DOMAIN lastRefill
    THEN [tokens |-> Put(tokens, user, bucketSize),
          lastRefill |-> Put(lastRefill, user, t)]
    ELSE [tokens |-> Put(tokens, user,
                         min(Get(tokens, user) + TokensToAdd(t - lastRefill[user]),
                             bucketSize)),
          lastRefill |-> Put(lastRefill, user, t)]

\* Allow, from time.Now() to the end of the if/else: the two maps after it
RefillBucket(user, t) ==
    IF user \notin DOMAIN lastRefill
    THEN [tokens |-> Put(tokens, user, bucketSize),
          lastRefill |-> Put(lastRefill, user, t)]
    ELSE IF TokensToAdd(t - lastRefill[user]) > 0
    THEN [tokens |-> Put(tokens, user,
                         min(Get(tokens, user) + TokensToAdd(t - lastRefill[user]),
                             bucketSize)),
          lastRefill |-> Put(lastRefill, user, t)]
    ELSE [tokens |-> tokens, lastRefill |-> lastRefill]

\* a check that denies only below zero
HasTokenOrDebt(user) == ~(Get(tokens, user) < 0)

\* Allow, the check of the tokens available: whether the call is allowed
HasToken(user) == ~(Get(tokens, user) <= 0)

\* a call that takes a token whether it is allowed or not
ConsumeTokenAlways(user) == Put(tokens, user, Get(tokens, user) - 1)

\* an allowed call that takes no token
KeepToken(user) == tokens

\* Allow, after the check: the tokens map once the call returns
ConsumeToken(user) ==
    IF HasToken(user) THEN Put(tokens, user, Get(tokens, user) - 1) ELSE tokens

\* a sweep without threshold
InactiveUsersNoHour(t) == {user \in DOMAIN lastRefill : lastRefill[user] < t}

\* a sweep whose threshold is two hours
InactiveUsersTwoHours(t) ==
    {user \in DOMAIN lastRefill : lastRefill[user] < t - 2 * Hour}

\* cleanupInactiveBuckets: the users it finds inactive at time t
InactiveUsers(t) == {user \in DOMAIN lastRefill : lastRefill[user] < t - Hour}

---------------------------------------------------------------------------
(* The clock and the cleanup ticker *)

\* the times at which the clock is read
Times == {k * cleanupInterval + i : k \in 0..MaxIntervals, i \in 0..MaxTicks}

\* whether the ticker fires in (from, to]: it fires at every multiple of cleanupInterval
TickerFires(from, to) == (to \div cleanupInterval) > (from \div cleanupInterval)

Unlocked == "unlocked"
Cleanup == "cleanup"

---------------------------------------------------------------------------
(* The handler's pure steps *)

\* the string literals of the handler
ColonLit == Str(<<":">>)
AtLit == Str(<<"@">>)
AnchorLit == Str(<<"<", "a">>)
HrefLit == Str(<<"h", "r", "e", "f">>)
HeadingLit == Str(<<"<", "h">>)
SpanLit == Str(<<"<", "s", "p", "a", "n">>)
LtLit == Str(<<"<">>)
PanLit == Str(<<"p", "a", "n">>)
QuoteLit == Str(<<"\"">>)
QuoteLtLit == Str(<<"\"", " ", "<">>)
GtLit == Str(<<">">>)
FromLit == Str(<<"F", "r", "o", "m", ":", " ">>)
ToLit == Str(<<"T", "o", ":", " ">>)
SubjectLit == Str(<<"S", "u", "b", "j", "e", "c", "t", ":", " ">>)
MimeVersionLit == Str(<<"M", "I", "M", "E", "-", "V", "e", "r", "s", "i", "o", "n", ":", " ", "1", ".", "0">>)
HTMLTypeLit == Str(<<"C", "o", "n", "t", "e", "n", "t", "-", "T", "y", "p", "e", ":", " ", "t", "e", "x", "t", "/", "h", "t", "m", "l", ";", " ", "c", "h", "a", "r", "s", "e", "t", "=", "U", "T", "F", "-", "8">>)
PlainTypeLit == Str(<<"C", "o", "n", "t", "e", "n", "t", "-", "T", "y", "p", "e", ":", " ", "t", "e", "x", "t", "/", "p", "l", "a", "i", "n", ";", " ", "c", "h", "a", "r", "s", "e", "t", "=", "U", "T", "F", "-", "8">>)
CommaLit == Str(<<",", " ">>)
BasicPrefix == Str(<<"B", "a", "s", "i", "c", " ">>)

\* strings.SplitN(s, ":", 2)
SplitCredentials(s) ==
    LET i == Index(s, ColonLit)
    IN  IF i = 0 THEN <<s>> ELSE <<SubSeq(s, 1, i - 1), Drop(s, i)>>

\* the handler down to the call of Allow: the status it answers, 0 when it goes on
AuthStatus(r) ==
    IF r.method # "POST" THEN 405
    ELSE IF r.auth = <<>> \/ ~HasPrefix(r.auth, BasicPrefix) THEN 401
    ELSE IF ~DecodeString(Drop(r.auth, 6)).ok THEN 401
    ELSE IF Len(SplitCredentials(DecodeString(Drop(r.auth, 6)).bytes)) # 2 THEN 401
    ELSE 0

\* the text http.Error writes with the status
AuthText(r) ==
    IF r.method # "POST" THEN "Method not allowed"
    ELSE IF r.auth = <<>> \/ ~HasPrefix(r.auth, BasicPrefix) THEN "Authentication required"
    ELSE "Invalid authentication format"

\* username and password of a request that passed the checks of its header
Credentials(r) ==
    [username |-> SplitCredentials(DecodeString(Drop(r.auth, 6)).bytes)[1],
     password |-> SplitCredentials(DecodeString(Drop(r.auth, 6)).bytes)[2]]

NoCredentials == [username |-> <<>>, password |-> <<>>]

\* the lower-case form of an ASCII letter, any other byte itself
Lower(b) == IF b >= 65 /\ b <= 90 THEN b + 32 ELSE b

\* whether the lower-case literal lit matches s at i, ASCII case folded
MatchFold(s, lit, i) ==
    /\ i >= 1
    /\ i + Len(lit) - 1 <= Len(s)
    /\ \A k \in 1..Len(lit) : Lower(s[i + k - 1]) = lit[k]

\* the class \s of the pattern: [\t\n\f\r ]
IsSpace(b) == b \in {TAB, LF, FF, CR, 32}

\* <a\s+href at i
MatchAnchor(s, i) ==
    /\ MatchFold(s, AnchorLit, i)
    /\ \E n \in 1..Len(s) :
          /\ \A k \in 1..n : i + 1 + k <= Len(s) /\ IsSpace(s[i + 1 + k])
          /\ MatchFold(s, HrefLit, i + 2 + n)

\* <h[1-6] at i
MatchHeading(s, i) ==
    /\ MatchFold(s, HeadingLit, i)
    /\ i + 2 <= Len(s)
    /\ s[i + 2] >= 49 /\ s[i + 2] <= 54

\* <span at i: under (?i) the s also matches U+017F, the bytes C5 BF
MatchSpan(s, i) ==
    \/ MatchFold(s, SpanLit, i)
    \/ /\ MatchFold(s, LtLit, i)
       /\ MatchAt(s, <<197, 191>>, i + 1)
       /\ MatchFold(s, PanLit, i + 3)

\* the literal alternatives of htmlPattern
HTMLLiterals ==
    { Str(<<"<", "h", "t", "m", "l">>),
      Str(<<"<", "b", "o", "d", "y">>),
      Str(<<"<", "d", "i", "v">>),
      Str(<<"<", "p", ">">>),
      Str(<<"<", "t", "a", "b", "l", "e">>),
      Str(<<"<", "i", "m", "g">>),
      Str(<<"<", "!", "d", "o", "c", "t", "y", "p", "e", " ", "h", "t", "m", "l", ">">>) }

\* isHTML: htmlPattern.MatchString(content)
isHTML(content) ==
    \E i \in 1..Len(content) :
        \/ \E lit \in HTMLLiterals : MatchFold(content, lit, i)
        \/ MatchAnchor(content, i)
        \/ MatchSpan(content, i)
        \/ MatchHeading(content, i)

\* utf8.RuneError, the rune that stands for bytes that are not UTF-8
RuneError == 65533

\* whether b is a continuation byte of UTF-8
IsCont(b) == b >= 128 /\ b <= 191

\* the byte of s at i, 0 behind its end
ByteAt(s, i) == IF i <= Len(s) THEN s[i] ELSE 0

\* the range statement over a string: the rune that starts at byte i of s, and
\* its width; a byte that starts no well-formed sequence is RuneError of
\* width 1
DecodeRune(s, i) ==
    LET b0 == s[i]
        b1 == ByteAt(s, i + 1)
        b2 == ByteAt(s, i + 2)
        b3 == ByteAt(s, i + 3)
        lo == IF b0 = 224 THEN 160 ELSE IF b0 = 240 THEN 144 ELSE 128
        hi == IF b0 = 237 THEN 159 ELSE IF b0 = 244 THEN 143 ELSE 191
    IN  IF b0 < 128
        THEN <<b0, 1>>
        ELSE IF b0 >= 194 /\ b0 <= 223 /\ IsCont(b1)
        THEN <<(b0 - 192) * 64 + (b1 - 128), 2>>
        ELSE IF b0 >= 224 /\ b0 <= 239 /\ b1 >= lo /\ b1 <= hi /\ IsCont(b2)
        THEN <<(b0 - 224) * 4096 + (b1 - 128) * 64 + (b2 - 128), 3>>
        ELSE IF b0 >= 240 /\ b0 <= 244 /\ b1 >= lo /\ b1 <= hi /\ IsCont(b2) /\ IsCont(b3)
        THEN <<(b0 - 240) * 262144 + (b1 - 128) * 4096 + (b2 - 128) * 64 + (b3 - 128), 4>>
        ELSE <<RuneError, 1>>

\* the UTF-8 encoding of rune r, as strings.Builder.WriteRune writes it
EncodeRune(r) ==
    IF r < 128
    THEN <<r>>
    ELSE IF r < 2048
    THEN <<192 + (r \div 64), 128 + (r % 64)>>
    ELSE IF r < 65536
    THEN <<224 + (r \div 4096), 128 + ((r \div 64) % 64), 128 + (r % 64)>>
    ELSE <<240 + (r \div 262144), 128 + ((r \div 4096) % 64),
           128 + ((r \div 64) % 64), 128 + (r % 64)>>

\* unicode.IsSpace
IsSpaceRune(r) ==
    \/ r \in {9, 10, 11, 12, 13, 32, 133, 160, 5760}
    \/ r >= 8192 /\ r <= 8202
    \/ r \in {8232, 8233, 8239, 8287, 12288}

\* the case table of unicode.ToTitle, <<first, last, stride, delta>>: the runes
\* first, first + stride, ... last have the title case rune + delta
TitleRanges ==
    { <<97, 122, 1, -32>>, <<181, 181, 1, 743>>, <<224, 246, 1, -32>>,
      <<248, 254, 1, -32>>, <<255, 255, 1, 121>>, <<257, 303, 2, -1>>,
      <<305, 305, 1, -232>>, <<307, 311, 2, -1>>, <<314, 328, 2, -1>>,
      <<331, 375, 2, -1>>, <<378, 382, 2, -1>>, <<383, 383, 1, -300>>,
      <<384, 384, 1, 195>>, <<387, 389, 2, -1>>, <<392, 392, 1, -1>>,
      <<396, 396, 1, -1>>, <<402, 402, 1, -1>>, <<405, 405, 1, 97>>,
      <<409, 409, 1, -1>>, <<410, 410, 1, 163>>, <<414, 414, 1, 130>>,
      <<417, 421, 2, -1>>, <<424, 424, 1, -1>>, <<429, 429, 1, -1>>,
      <<432, 432, 1, -1>>, <<436, 438, 2, -1>>, <<441, 441, 1, -1>>,
      <<445, 445, 1, -1>>, <<447, 447, 1, 56>>, <<452, 452, 1, 1>>,
      <<454, 454, 1, -1>>, <<455, 455, 1, 1>>, <<457, 457, 1, -1>>,
      <<458, 458, 1, 1>>, <<460, 476, 2, -1>>, <<477, 477, 1, -79>>,
      <<479, 495, 2, -1>>, <<497, 497, 1, 1>>, <<499, 501, 2, -1>>,
      <<505, 543, 2, -1>>, <<547, 563, 2, -1>>, <<572, 572, 1, -1>>,
      <<575, 576, 1, 10815>>, <<578, 578, 1, -1>>, <<583, 591, 2, -1>>,
      <<592, 592, 1, 10783>>, <<593, 593, 1, 10780>>, <<594, 594, 1, 10782>>,
      <<595, 595, 1, -210>>, <<596, 596, 1, -206>>, <<598, 599, 1, -205>>,
      <<601, 601, 1, -202>>, <<603, 603, 1, -203>>, <<604, 604, 1, 42319>>,
      <<608, 608, 1, -205>>, <<609, 609, 1, 42315>>, <<611, 611, 1, -207>>,
      <<613, 613, 1, 42280>>, <<614, 614, 1, 42308>>, <<616, 616, 1, -209>>,
      <<617, 617, 1, -211>>, <<618, 618, 1, 42308>>, <<619, 619, 1, 10743>>,
      <<620, 620, 1, 42305>>, <<623, 623, 1, -211>>, <<625, 625, 1, 10749>>,
      <<626, 626, 1, -213>>, <<629, 629, 1, -214>>, <<637, 637, 1, 10727>>,
      <<640, 640, 1, -218>>, <<642, 642, 1, 42307>>, <<643, 643, 1, -218>>,
      <<647, 647, 1, 42282>>, <<648, 648, 1, -218>>, <<649, 649, 1, -69>>,
      <<650, 651, 1, -217>>, <<652, 652, 1, -71>>, <<658, 658, 1, -219>>,
      <<669, 669, 1, 42261>>, <<670, 670, 1, 42258>>, <<837, 837, 1, 84>>,
      <<881, 883, 2, -1>>, <<887, 887, 1, -1>>, <<891, 893, 1, 130>>,
      <<940, 940, 1, -38>>, <<941, 943, 1, -37>>, <<945, 961, 1, -32>>,
      <<962, 962, 1, -31>>, <<963, 971, 1, -32>>, <<972, 972, 1, -64>>,
      <<973, 974, 1, -63>>, <<976, 976, 1, -62>>, <<977, 977, 1, -57>>,
      <<981, 981, 1, -47>>, <<982, 982, 1, -54>>, <<983, 983, 1, -8>>,
      <<985, 1007, 2, -1>>, <<1008, 1008, 1, -86>>, <<1009, 1009, 1, -80>>,
      <<1010, 1010, 1, 7>>, <<1011, 1011, 1, -116>>, <<1013, 1013, 1, -96>>,
      <<1016, 1016, 1, -1>>, <<1019, 1019, 1, -1>>, <<1072, 1103, 1, -32>>,
      <<1104, 1119, 1, -80>>, <<1121, 1153, 2, -1>>, <<1163, 1215, 2, -1>>,
      <<1218, 1230, 2, -1>>, <<1231, 1231, 1, -15>>, <<1233, 1327, 2, -1>>,
      <<1377, 1414, 1, -48>>, <<5112, 5117, 1, -8>>,
      <<7296, 7296, 1, -6254>>, <<7297, 7297, 1, -6253>>,
      <<7298, 7298, 1, -6244>>, <<7299, 7300, 1, -6242>>,
      <<7301, 7301, 1, -6243>>, <<7302, 7302, 1, -6236>>,
      <<7303, 7303, 1, -6181>>, <<7304, 7304, 1, 35266>>,
      <<7545, 7545, 1, 35332>>, <<7549, 7549, 1, 3814>>,
      <<7566, 7566, 1, 35384>>, <<7681, 7829, 2, -1>>,
      <<7835, 7835, 1, -59>>, <<7841, 7935, 2, -1>>, <<7936, 7943, 1, 8>>,
      <<7952, 7957, 1, 8>>, <<7968, 7975, 1, 8>>, <<7984, 7991, 1, 8>>,
      <<8000, 8005, 1, 8>>, <<8017, 8023, 2, 8>>, <<8032, 8039, 1, 8>>,
      <<8048, 8049, 1, 74>>, <<8050, 8053, 1, 86>>, <<8054, 8055, 1, 100>>,
      <<8056, 8057, 1, 128>>, <<8058, 8059, 1, 112>>, <<8060, 8061, 1, 126>>,
      <<8064, 8071, 1, 8>>, <<8080, 8087, 1, 8>>, <<8096, 8103, 1, 8>>,
      <<8112, 8113, 1, 8>>, <<8115, 8115, 1, 9>>, <<8126, 8126, 1, -7205>>,
      <<8131, 8131, 1, 9>>, <<8144, 8145, 1, 8>>, <<8160, 8161, 1, 8>>,
      <<8165, 8165, 1, 7>>, <<8179, 8179, 1, 9>>, <<8526, 8526, 1, -28>>,
      <<8560, 8575, 1, -16>>, <<8580, 8580, 1, -1>>, <<9424, 9449, 1, -26>>,
      <<11312, 11359, 1, -48>>, <<11361, 11361, 1, -1>>,
      <<11365, 11365, 1, -10795>>, <<11366, 11366, 1, -10792>>,
      <<11368, 11372, 2, -1>>, <<11379, 11379, 1, -1>>,
      <<11382, 11382, 1, -1>>, <<11393, 11491, 2, -1>>,
      <<11500, 11502, 2, -1>>, <<11507, 11507, 1, -1>>,
      <<11520, 11557, 1, -7264>>, <<11559, 11559, 1, -7264>>,
      <<11565, 11565, 1, -7264>>, <<42561, 42605, 2, -1>>,
      <<42625, 42651, 2, -1>>, <<42787, 42799, 2, -1>>,
      <<42803, 42863, 2, -1>>, <<42874, 42876, 2, -1>>,
      <<42879, 42887, 2, -1>>, <<42892, 42892, 1, -1>>,
      <<42897, 42899, 2, -1>>, <<42900, 42900, 1, 48>>,
      <<42903, 42921, 2, -1>>, <<42933, 42947, 2, -1>>,
      <<42952, 42954, 2, -1>>, <<42961, 42961, 1, -1>>,
      <<42967, 42969, 2, -1>>, <<42998, 42998, 1, -1>>,
      <<43859, 43859, 1, -928>>, <<43888, 43967, 1, -38864>>,
      <<65345, 65370, 1, -32>>, <<66600, 66639, 1, -40>>,
      <<66776, 66811, 1, -40>>, <<66967, 66977, 1, -39>>,
      <<66979, 66993, 1, -39>>, <<66995, 67001, 1, -39>>,
      <<67003, 67004, 1, -39>>, <<68800, 68850, 1, -64>>,
      <<71872, 71903, 1, -32>>, <<93792, 93823, 1, -32>>,
      <<125218, 125251, 1, -34>> }

\* whether rune r is one of the runes of e
InTitleRange(r, e) == r >= e[1] /\ r <= e[2] /\ (r - e[1]) % e[3] = 0

\* unicode.ToTitle
ToTitle(r) ==
    IF \E e \in TitleRanges : InTitleRange(r, e)
    THEN r + (CHOOSE e \in TitleRanges : InTitleRange(r, e))[4]
    ELSE r

\* strings.isSeparator: whether strings.Title starts a new word after rune r.
\* Above ASCII a rune is a separator when it is no letter, no digit and a
\* space, and no space is a letter or a digit
IsSeparator(r) ==
    IF r <= 127
    THEN ~((r >= 48 /\ r <= 57) \/ (r >= 65 /\ r <= 90) \/ (r >= 97 /\ r <= 122) \/ r = 95)
    ELSE IsSpaceRune(r)

\* strings.Map of Title's closure over the runes of s from byte i on, prev
\* being the rune before; d is the rune at i and its width
RECURSIVE TitleFrom(_, _, _)
TitleFrom(s, i, prev) ==
    IF i > Len(s)
    THEN <<>>
    ELSE CHOOSE out \in { EncodeRune(IF IsSeparator(prev) THEN ToTitle(d[1]) ELSE d[1])
                          \o TitleFrom(s, i + d[2], d[1]) :
                          d \in {DecodeRune(s, i)} } : TRUE

\* strings.Title
Title(s) == TitleFrom(s, 1, 32)

\* strings.Split(username, "@")[0]
LocalPart(username) ==
    LET i == Index(username, AtLit)
    IN  IF i = 0 THEN username ELSE SubSeq(username, 1, i - 1)

\* fmt.Sprintf("\"%s\" <%s>", name, username)
NameAddr(name, username) ==
    QuoteLit \o name \o QuoteLtLit \o username \o GtLit

\* a handler that looks at the username before it looks at the title
FromHeaderLocalFirst(username, reqTitle) ==
    IF Contains(username, AtLit)
    THEN NameAddr(Title(LocalPart(username)), username)
    ELSE IF reqTitle # <<>> THEN NameAddr(reqTitle, username)
    ELSE username

\* the From header: the handler's variable title
FromHeader(username, reqTitle) ==
    IF reqTitle # <<>> THEN NameAddr(reqTitle, username)
    ELSE IF Contains(username, AtLit)
    THEN NameAddr(Title(LocalPart(username)), username)
    ELSE username

\* the lines the handler adds after Subject, by isHTMLContent
ContentHeaders(html) ==
    IF html
    THEN <<LF>> \o MimeVersionLit \o <<LF>>
         \o HTMLTypeLit
    ELSE <<LF>> \o PlainTypeLit

\* msg: the message handed to smtp.SendMail
BuildMessage(username, body) ==
    FromLit \o FromHeader(username, body.title)
    \o <<LF>> \o ToLit \o Join(body.to, CommaLit)
    \o <<LF>> \o SubjectLit \o body.subject
    \o ContentHeaders(isHTML(body.content))
    \o <<LF, LF>> \o body.content

\* a handler that reads the body before it looks at the answer of Allow
AdmitStatusBodyFirst(ok, body) ==
    IF ~body.valid THEN 400
    ELSE IF Len(body.to) = 0 \/ body.subject = <<>> \/ body.content = <<>> THEN 400
    ELSE IF ~ok THEN 429
    ELSE 0

\* a handler that does not look at the fields of the body
AdmitStatusNoFields(ok, body) ==
    IF ~ok THEN 429
    ELSE IF ~body.valid THEN 400
    ELSE 0

\* the handler from the return of Allow to the call of smtp.SendMail:
\* the status it answers, 0 when it goes on to the relay
AdmitStatus(ok, body) ==
    IF ~ok THEN 429
    ELSE IF ~body.valid THEN 400
    ELSE IF Len(body.to) = 0 \/ body.subject = <<>> \/ body.content = <<>> THEN 400
    ELSE 0

AdmitText(ok, body) ==
    IF ~ok THEN "Rate limit exceeded"
    ELSE IF ~body.valid THEN "Invalid request body"
    ELSE "Missing required fields (to, subject, content)"

---------------------------------------------------------------------------
(* The requests of the clients *)

Alice == Str(<<"a", "l", "i", "c", "e", "@", "e", "x", "a", "m", "p", "l", "e", ".", "c", "o", "m">>)
Bob == Str(<<"b", "o", "b">>)

\* a username outside ASCII: e with acute accent, a no-break space and b, at x
Elodie == <<195, 169, 194, 160>> \o Str(<<"b", "@", "x">>)

\* Authorization headers: none, another scheme, not base64, no colon, and
\* the credentials alice@example.com:pw, alice@example.com:wrong, bob:pw,
\* bob:wrong and those of Elodie with pw
NoAuth == <<>>
BearerAuth == Str(<<"B", "e", "a", "r", "e", "r", " ", "Y", "W", "x", "p", "Y", "2", "U", "6", "c", "H", "c", "=">>)
GarbledAuth == Str(<<"B", "a", "s", "i", "c", " ", "Y", "W", "x", "p", "Y", "2", "U", "6", "*", "H", "B", "3">>)
NoColonAuth == Str(<<"B", "a", "s", "i", "c", " ", "b", "m", "9", "j", "b", "2", "x", "v", "b", "g", "=", "=">>)
AliceAuth == Str(<<"B", "a", "s", "i", "c", " ", "Y", "W", "x", "p", "Y", "2", "V", "A", "Z", "X", "h", "h", "b", "X", "B", "s", "Z", "S", "5", "j", "b", "2", "0", "6", "c", "H", "c", "=">>)
BobAuth == Str(<<"B", "a", "s", "i", "c", " ", "Y", "m", "9", "i", "O", "n", "B", "3">>)
AliceWrongAuth == Str(<<"B", "a", "s", "i", "c", " ", "Y", "W", "x", "p", "Y", "2", "V", "A", "Z", "X", "h", "h", "b", "X", "B", "s", "Z", "S", "5", "j", "b", "2", "0", "6", "d", "3", "J", "v", "b", "m", "c", "=">>)
ElodieAuth == Str(<<"B", "a", "s", "i", "c", " ", "w", "6", "n", "C", "o", "G", "J", "A", "e", "D", "p", "w", "d", "w", "=", "=">>)
BobWrongAuth == Str(<<"B", "a", "s", "i", "c", " ", "Y", "m", "9", "i", "O", "n", "d", "y", "b", "2", "5", "n">>)

Recipient == Str(<<"b", "o", "b", "@", "e", "x", "a", "m", "p", "l", "e", ".", "c", "o", "m">>)

\* a decoded body: valid is whether json.Decode returned no error
Body(to, subject, content, title) ==
    [valid |-> TRUE, to |-> to, subject |-> subject, content |-> content,
     title |-> title]

BadJSON == [valid |-> FALSE, to |-> <<>>, subject |-> <<>>, content |-> <<>>,
            title |-> <<>>]
PlainBody == Body(<<Recipient>>, Str(<<"H", "i">>), Str(<<"h", "i">>), <<>>)
HTMLBody == Body(<<Recipient, Alice>>, Str(<<"H", "i">>), Str(<<"<", "p", ">", "h", "i", "<", "/", "p", ">">>),
                 Str(<<"B", "o", "b", " ", "B">>))
NoToBody == Body(<<>>, Str(<<"H", "i">>), Str(<<"h", "i">>), <<>>)
NoSubjectBody == Body(<<Recipient>>, <<>>, Str(<<"<", "P", ">", "h", "i">>), <<>>)
NoContentBody == Body(<<Recipient>>, Str(<<"H", "i">>), <<>>, <<>>)

\* a subject that holds a line break: "Hi\nMIME-Version: 1.0"
InjectedBody == Body(<<Recipient>>,
                     Str(<<"H", "i">>) \o <<LF>> \o MimeVersionLit,
                     Str(<<"h", "i">>), <<>>)

Methods == {"GET", "POST"}
Auths == {NoAuth, BearerAuth, GarbledAuth, NoColonAuth, AliceAuth, AliceWrongAuth}
Bodies == {BadJSON, PlainBody, HTMLBody, NoToBody, NoSubjectBody, NoContentBody,
           InjectedBody}

\* every request of the three
AllRequests == [method : Methods, auth : Auths, body : Bodies]

\* the POST requests with one of the headers auths and one of the bodies
Posts(auths, bodies) == [method : {"POST"}, auth : auths, body : bodies]

\* the requests of all the runs
Requests ==
    AllRequests \cup Posts({BobAuth, BobWrongAuth}, Bodies)
    \cup Posts({ElodieAuth}, {PlainBody})

NoRequest == [method |-> "", auth |-> <<>>, body |-> BadJSON]

\* what smtp.SendMail returns: err.Error(), "" for nil
RelayErrors == {"", "535 authentication failed"}

Workers == {"w1", "w2"}

---------------------------------------------------------------------------
(* The state machine *)

\* The history of a bucket is kept for its first bucketSize + 1 calls of
\* Allow, as long as they come within a second of its creation and as long as
\* none before the latest has refilled it: first is the time of its creation
\* (-1 once the history is dropped), calls the number of calls, age the time
\* from first to the latest call, refilled whether the latest call refilled;
\* swept is whether a sweep has removed the bucket of the identity and Allow
\* has been called for it at most once since.
NewHistory(t, swept) ==
    [first |-> t, calls |-> 1, age |-> 0, refilled |-> FALSE, swept |-> swept]

Dropped(swept) ==
    [first |-> -1, calls |-> 0, age |-> 0, refilled |-> FALSE, swept |-> swept]

\* the events of a request's log: Allow is called, Allow returns,
\* smtp.SendMail is called, smtp.SendMail returns, a response is written
CallEvent(user) == [ev |-> "call", user |-> user]
ReturnEvent(ok) == [ev |-> "return", ok |-> ok]
RelayEvent(from, password, to, msg) ==
    [ev |-> "relay", from |-> from, password |-> password, to |-> to, msg |-> msg]
RelayedEvent(err) == [ev |-> "relayed", err |-> err]
Response(status, text) == [ev |-> "response", status |-> status, text |-> text]

\* The observer. From the time start on it counts the calls of Allow that
\* return true: at is the time that the call inside Allow has read from the
\* clock (-1 outside Allow), granted the number of such calls per identity and
\* last the time of the latest of them. It also runs every call of Allow on
\* shadow, the two maps of a limiter whose buckets no sweep removes. Without
\* an observer start is -1.
Window(start) ==
    [start |-> start, at |-> -1, granted |-> EmptyMap, last |-> EmptyMap,
     shadow |-> [tokens |-> EmptyMap, lastRefill |-> EmptyMap]]

\* Allow on the maps b, from time.Now() to the end of the if/else
ShadowRefill(b, user, t) ==
    IF user \notin DOMAIN b.lastRefill
    THEN [tokens |-> Put(b.tokens, user, bucketSize),
          lastRefill |-> Put(b.lastRefill, user, t)]
    ELSE IF Trunc((t - b.lastRefill[user]) * maxPerSec, TicksPerSec) > 0
    THEN [tokens |-> Put(b.tokens, user,
                         min(Get(b.tokens, user)
                             + Trunc((t - b.lastRefill[user]) * maxPerSec, TicksPerSec),
                             bucketSize)),
          lastRefill |-> Put(b.lastRefill, user, t)]
    ELSE b

\* Allow on the maps b, from the check of the tokens to the return
ShadowConsume(b, user) ==
    IF Get(b.tokens, user) <= 0 THEN b
    ELSE [b EXCEPT !.tokens = Put(@, user, Get(@, user) - 1)]

\* the observer once Allow, called for user, has read the time t from the
\* clock and initialised or refilled the bucket
ObserveCall(user, t) ==
    IF window.start < 0 THEN window
    ELSE [window EXCEPT !.at = t,
                        !.shadow = ShadowRefill(@, user, t)]

\* the observer once the call of Allow for user returns ok
ObserveReturn(user, ok) ==
    IF window.start < 0 THEN window
    ELSE IF ok /\ window.at >= window.start
    THEN [window EXCEPT !.granted = Put(@, user, Get(@, user) + 1),
                        !.last = Put(@, user, window.at),
                        !.at = -1,
                        !.shadow = ShadowConsume(@, user)]
    ELSE [window EXCEPT !.at = -1,
                        !.shadow = ShadowConsume(@, user)]

\* main, with the limiter of NewRateLimiter(rate), the handler goroutines ws,
\* the clients' requests reqs and an observer whose window starts at one of
\* starts
InitObserved(rate, ws, reqs, starts) ==
    /\ maxPerSec = NewRateLimiter(rate).maxPerSec
    /\ bucketSize = NewRateLimiter(rate).bucketSize
    /\ tokens = NewRateLimiter(rate).tokens
    /\ lastRefill = NewRateLimiter(rate).lastRefill
    /\ mutex = Unlocked
    /\ now = 0
    /\ tickBuffered = FALSE
    /\ cpc = "wait"
    /\ traffic = reqs
    /\ pc = [g \in ws |-> "idle"]
    /\ req = [g \in ws |-> NoRequest]
    /\ creds = [g \in ws |-> NoCredentials]
    /\ allowed = [g \in ws |-> FALSE]
    /\ log = [g \in ws |-> <<>>]
    /\ hist = EmptyMap
    /\ window \in {Window(start) : start \in starts}

\* main, without observer
InitWith(rate, ws, reqs) == InitObserved(rate, ws, reqs, {-1})

\* time passes
Advance(t) ==
    /\ t > now
    /\ now' = t
    /\ tickBuffered' = (tickBuffered \/ TickerFires(now, t))
    /\ UNCHANGED <<limiter, mutex, cpc, traffic, pc, req, creds, allowed, log, hist, window>>

\* periodicCleanup: the loop receives a tick from ticker.C and calls
\* cleanupInactiveBuckets, which is about to take the lock
CleanupTick ==
    /\ cpc = "wait"
    /\ tickBuffered
    /\ tickBuffered' = FALSE
    /\ cpc' = "lock"
    /\ UNCHANGED <<limiter, mutex, now, traffic, pc, req, creds, allowed, log, hist,
                   window>>

\* cleanupInactiveBuckets: rl.mutex.Lock() returns
CleanupLock ==
    /\ cpc = "lock"
    /\ mutex = Unlocked
    /\ mutex' = Cleanup
    /\ cpc' = "sweep"
    /\ UNCHANGED <<limiter, now, tickBuffered, traffic, pc, req, creds, allowed, log,
                   hist, window>>

\* a sweep that returns with the lock held
CleanupSweepKeepLock ==
    /\ cpc = "sweep"
    /\ tokens' = Delete(tokens, InactiveUsers(now))
    /\ lastRefill' = Delete(lastRefill, InactiveUsers(now))
    /\ hist' = [u \in DOMAIN hist |->
                  IF u \in InactiveUsers(now) THEN Dropped(TRUE) ELSE hist[u]]
    /\ cpc' = "wait"
    /\ UNCHANGED <<maxPerSec, bucketSize, mutex, now, tickBuffered, traffic, pc,
                   req, creds, allowed, log, window>>

\* cleanupInactiveBuckets: the sweep and the deferred Unlock
CleanupSweep ==
    /\ cpc = "sweep"
    /\ tokens' = Delete(tokens, InactiveUsers(now))
    /\ lastRefill' = Delete(lastRefill, InactiveUsers(now))
    /\ hist' = [u \in DOMAIN hist |->
                  IF u \in InactiveUsers(now) THEN Dropped(TRUE) ELSE hist[u]]
    /\ mutex' = Unlocked
    /\ cpc' = "wait"
    /\ UNCHANGED <<maxPerSec, bucketSize, now, tickBuffered, traffic, pc, req,
                   creds, allowed, log, window>>

\* a handler that decodes the body before it calls Allow
ReceiveBodyFirst(g, r) ==
    /\ g \in DOMAIN pc
    /\ pc[g] = "idle"
    /\ r \in traffic
    /\ req' = [req EXCEPT ![g] = r]
    /\ IF AuthStatus(r) # 0
       THEN /\ log' = [log EXCEPT ![g] = <<Response(AuthStatus(r), AuthText(r))>>]
            /\ creds' = creds
            /\ pc' = [pc EXCEPT ![g] = "done"]
       ELSE IF ~r.body.valid
       THEN /\ log' = [log EXCEPT ![g] = <<Response(400, "Invalid request body")>>]
            /\ creds' = [creds EXCEPT ![g] = Credentials(r)]
            /\ pc' = [pc EXCEPT ![g] = "done"]
       ELSE /\ log' = log
            /\ creds' = [creds EXCEPT ![g] = Credentials(r)]
            /\ pc' = [pc EXCEPT ![g] = "lock"]
    /\ UNCHANGED <<limiter, mutex, now, tickBuffered, cpc, traffic, allowed, hist, window>>

\* the handler, from its entry to the call of rateLimiter.Allow
Receive(g, r) ==
    /\ g \in DOMAIN pc
    /\ pc[g] = "idle"
    /\ r \in traffic
    /\ req' = [req EXCEPT ![g] = r]
    /\ IF AuthStatus(r) # 0
       THEN /\ log' = [log EXCEPT ![g] = <<Response(AuthStatus(r), AuthText(r))>>]
            /\ creds' = creds
            /\ pc' = [pc EXCEPT ![g] = "done"]
       ELSE /\ log' = log
            /\ creds' = [creds EXCEPT ![g] = Credentials(r)]
            /\ pc' = [pc EXCEPT ![g] = "lock"]
    /\ UNCHANGED <<limiter, mutex, now, tickBuffered, cpc, traffic, allowed, hist, window>>

\* an Allow that does not wait for the lock
AllowLockNoWait(g) ==
    /\ g \in DOMAIN pc
    /\ pc[g] = "lock"
    /\ mutex' = g
    /\ pc' = [pc EXCEPT ![g] = "refill"]
    /\ UNCHANGED <<limiter, now, tickBuffered, cpc, traffic, req, creds, allowed,
                   log, hist, window>>

\* Allow: rl.mutex.Lock()
AllowLock(g) ==
    /\ g \in DOMAIN pc
    /\ pc[g] = "lock"
    /\ mutex = Unlocked
    /\ mutex' = g
    /\ pc' = [pc EXCEPT ![g] = "refill"]
    /\ UNCHANGED <<limiter, now, tickBuffered, cpc, traffic, req, creds, allowed,
                   log, hist, window>>

\* the history of user's bucket with the call of Allow at time t
CallHistory(user, t) ==
    LET h == IF user \in DOMAIN hist THEN hist[user] ELSE Dropped(FALSE)
    IN  IF user \notin DOMAIN lastRefill THEN NewHistory(t, h.swept)
        ELSE IF \/ h.first < 0
                \/ h.refilled
                \/ h.calls > bucketSize
                \/ t - h.first >= TicksPerSec
        THEN Dropped(FALSE)
        ELSE [h EXCEPT !.calls = @ + 1,
                       !.age = t - h.first,
                       !.refilled = Refills(user, t),
                       !.swept = FALSE]

\* Allow: time.Now(), then the bucket is initialised or refilled
AllowRefill(g) ==
    /\ g \in DOMAIN pc
    /\ pc[g] = "refill"
    /\ tokens' = RefillBucket(creds[g].username, now).tokens
    /\ lastRefill' = RefillBucket(creds[g].username, now).lastRefill
    /\ hist' = Put(hist, creds[g].username, CallHistory(creds[g].username, now))
    /\ log' = [log EXCEPT ![g] = Append(@, CallEvent(creds[g].username))]
    /\ window' = ObserveCall(creds[g].username, now)
    /\ pc' = [pc EXCEPT ![g] = "consume"]
    /\ UNCHANGED <<maxPerSec, bucketSize, mutex, now, tickBuffered, cpc,
                   traffic, req, creds, allowed>>

\* an Allow that returns with the lock held
AllowConsumeKeepLock(g) ==
    LET user == creds[g].username
    IN  /\ g \in DOMAIN pc
        /\ pc[g] = "consume"
        /\ allowed' = [allowed EXCEPT ![g] = HasToken(user)]
        /\ tokens' = ConsumeToken(user)
        /\ log' = [log EXCEPT ![g] = Append(@, ReturnEvent(HasToken(user)))]
        /\ pc' = [pc EXCEPT ![g] = "admitted"]
        /\ UNCHANGED <<maxPerSec, bucketSize, lastRefill, mutex, now, tickBuffered,
                       cpc, traffic, req, creds, hist, window>>

\* Allow: the check of the tokens, the token consumed, the deferred Unlock
AllowConsume(g) ==
    LET user == creds[g].username
    IN  /\ g \in DOMAIN pc
        /\ pc[g] = "consume"
        /\ allowed' = [allowed EXCEPT ![g] = HasToken(user)]
        /\ tokens' = ConsumeToken(user)
        /\ mutex' = Unlocked
        /\ log' = [log EXCEPT ![g] = Append(@, ReturnEvent(HasToken(user)))]
        /\ window' = ObserveReturn(user, HasToken(user))
        /\ pc' = [pc EXCEPT ![g] = "admitted"]
        /\ UNCHANGED <<maxPerSec, bucketSize, lastRefill, now, tickBuffered, cpc,
                       traffic, req, creds, hist>>

\* the handler, from the return of Allow to the call of smtp.SendMail
Prepare(g) ==
    /\ g \in DOMAIN pc
    /\ pc[g] = "admitted"
    /\ IF AdmitStatus(allowed[g], req[g].body) # 0
       THEN /\ log' = [log EXCEPT ![g] =
                        Append(@, Response(AdmitStatus(allowed[g], req[g].body),
                                           AdmitText(allowed[g], req[g].body)))]
            /\ pc' = [pc EXCEPT ![g] = "done"]
       ELSE /\ log' = [log EXCEPT ![g] =
                        Append(@, RelayEvent(creds[g].username, creds[g].password,
                                             req[g].body.to,
                                             BuildMessage(creds[g].username,
                                                          req[g].body)))]
            /\ pc' = [pc EXCEPT ![g] = "relay"]
    /\ UNCHANGED <<limiter, mutex, now, tickBuffered, cpc, traffic, req, creds,
                   allowed, hist, window>>

\* a handler that gives the token back when the relay fails
RelayReturnRefund(g, err) ==
    /\ g \in DOMAIN pc
    /\ pc[g] = "relay"
    /\ log' = [log EXCEPT ![g] =
                 @ \o <<RelayedEvent(err),
                        IF err # ""
                        THEN Response(500, "Failed to send email: " \o err)
                        ELSE Response(200, "Email sent successfully")>>]
    /\ pc' = [pc EXCEPT ![g] = "done"]
    /\ tokens' = IF err # "" /\ creds[g].username \in DOMAIN tokens
                 THEN [tokens EXCEPT ![creds[g].username] = @ + 1]
                 ELSE tokens
    /\ UNCHANGED <<maxPerSec, bucketSize, lastRefill, mutex, now, tickBuffered,
                   cpc, traffic, req, creds, allowed, hist, window>>

\* a handler that tries the relay a second time when the first attempt fails
RelayReturnRetry(g, err) ==
    /\ g \in DOMAIN pc
    /\ pc[g] = "relay"
    /\ IF err # "" /\ log[g][Len(log[g])].ev = "relay"
          /\ Len(SelectSeq(log[g], LAMBDA e : e.ev = "relay")) = 1
       THEN /\ log' = [log EXCEPT ![g] = @ \o <<RelayedEvent(err), @[Len(@)]>>]
            /\ pc' = pc
       ELSE /\ log' = [log EXCEPT ![g] =
                        @ \o <<RelayedEvent(err),
                               IF err # ""
                               THEN Response(500, "Failed to send email: " \o err)
                               ELSE Response(200, "Email sent successfully")>>]
            /\ pc' = [pc EXCEPT ![g] = "done"]
    /\ UNCHANGED <<limiter, mutex, now, tickBuffered, cpc, traffic, req, creds,
                   allowed, hist, window>>

\* the handler, from the return of smtp.SendMail to its end
RelayReturn(g, err) ==
    /\ g \in DOMAIN pc
    /\ pc[g] = "relay"
    /\ log' = [log EXCEPT ![g] =
                 @ \o <<RelayedEvent(err),
                        IF err # ""
                        THEN Response(500, "Failed to send email: " \o err)
                        ELSE Response(200, "Email sent successfully")>>]
    /\ pc' = [pc EXCEPT ![g] = "done"]
    /\ UNCHANGED <<limiter, mutex, now, tickBuffered, cpc, traffic, req, creds,
                   allowed, hist, window>>

\* the request is over: the goroutine serves the next one
Finish(g) ==
    /\ g \in DOMAIN pc
    /\ pc[g] = "done"
    /\ pc' = [pc EXCEPT ![g] = "idle"]
    /\ req' = [req EXCEPT ![g] = NoRequest]
    /\ creds' = [creds EXCEPT ![g] = NoCredentials]
    /\ allowed' = [allowed EXCEPT ![g] = FALSE]
    /\ log' = [log EXCEPT ![g] = <<>>]
    /\ UNCHANGED <<limiter, mutex, now, tickBuffered, cpc, traffic, hist, window>>

Next ==
    \/ \E t \in Times : Advance(t)
    \/ CleanupTick
    \/ CleanupLock
    \/ CleanupSweep
    \/ \E g \in Workers, r \in Requests : Receive(g, r)
    \/ \E g \in Workers : AllowLock(g)
    \/ \E g \in Workers : AllowRefill(g)
    \/ \E g \in Workers : AllowConsume(g)
    \/ \E g \in Workers : Prepare(g)
    \/ \E g \in Workers, err \in RelayErrors : RelayReturn(g, err)
    \/ \E g \in Workers : Finish(g)

\* two requests in flight, of one identity
Init == InitWith(LowRate, Workers, Posts({AliceAuth}, {PlainBody, BadJSON}))
Spec == Init /\ [][Next]_vars

\* every request, one at a time
InitRequests == InitWith(LowRate, {"w1"}, AllRequests)
SpecRequests == InitRequests /\ [][Next]_vars

\* main's limiter, the requests of one identity, one at a time
InitDefault == InitWith(DefaultMaxPerSec, {"w1"}, Posts({AliceAuth}, {PlainBody}))
SpecDefault == InitDefault /\ [][Next]_vars

\* the requests of two identities, one at a time
InitIdentities == InitWith(LowRate, {"w1"}, Posts({AliceAuth, BobAuth}, {PlainBody}))
SpecIdentities == InitIdentities /\ [][Next]_vars

\* The scheduling: a goroutine that can take a step takes it, a goroutine that
\* waits for the mutex gets it (sync.Mutex hands the lock to a waiter that has
\* waited long), and smtp.SendMail returns. Clients, the clock and the end of
\* a request are free.
Fairness ==
    /\ WF_vars(CleanupTick)
    /\ SF_vars(CleanupLock)
    /\ WF_vars(CleanupSweep)
    /\ \A g \in Workers :
          /\ SF_vars(AllowLock(g))
          /\ WF_vars(AllowRefill(g))
          /\ WF_vars(AllowConsume(g))
          /\ WF_vars(Prepare(g))
          /\ WF_vars(\E err \in RelayErrors : RelayReturn(g, err))

\* the times at which the ticker fires
TickTimes == {k * cleanupInterval : k \in 0..MaxIntervals}

\* the steps of a run in which the clock is read when the ticker fires
NextFair == Next /\ now' \in TickTimes

\* two requests in flight, of one identity, under this scheduling
InitFair == InitWith(LowRate, Workers, Posts({AliceAuth}, {PlainBody}))
SpecFair == InitFair /\ [][NextFair]_vars /\ Fairness

\* the requests of three identities, with and without a title, one at a time,
\* the clock being read when the ticker fires
InitTitles ==
    InitWith(LowRate, {"w1"},
             Posts({AliceAuth}, {PlainBody, HTMLBody})
             \cup Posts({BobAuth, ElodieAuth}, {PlainBody}))
SpecTitles == InitTitles /\ [][NextFair]_vars

\* two requests in flight, of one identity, with every kind of body, the clock
\* being read when the ticker fires
InitGates ==
    InitWith(LowRate, Workers,
             Posts({AliceAuth}, {PlainBody, BadJSON, NoToBody, NoSubjectBody, NoContentBody}))
SpecGates == InitGates /\ [][NextFair]_vars

\* the times of a run whose clock is read at its start and in its last cleanup
\* interval
LastTimes == {0} \cup {MaxIntervals * cleanupInterval + i : i \in 0..MaxTicks}

\* The runs with an observer are of two kinds: the requests of one identity, one
\* at a time, with a window that starts at any time; and two requests in
\* flight, of two identities, with a window that starts with the last cleanup
\* interval, the clock being read at LastTimes
InitWindow ==
    \/ InitObserved(LowRate, {"w1"}, Posts({AliceAuth}, {PlainBody}), Times)
    \/ InitObserved(LowRate, Workers, Posts({AliceAuth, BobAuth}, {BadJSON}),
                    {MaxIntervals * cleanupInterval})
NextWindow == Next /\ ((DOMAIN pc = Workers) => (now' \in LastTimes))
SpecWindow == InitWindow /\ [][NextWindow]_vars

\* the requests of one identity, two in flight, with an observer from the
\* start of the run
InitShadow == InitObserved(LowRate, Workers, Posts({AliceAuth}, {PlainBody}), {0})
SpecShadow == InitShadow /\ [][Next]_vars

---------------------------------------------------------------------------
(* What the claims speak of *)

\* the identity of the request goroutine g serves
UserOf(g) == creds[g].username

\* the events of one kind in the log of g's request
EventsOf(g, kind) == SelectSeq(log[g], LAMBDA e : e.ev = kind)

\* the steps of Allow and of the sweep
RefillStep(g) == pc[g] = "refill" /\ pc'[g] = "consume"
ConsumeStep(g) == pc[g] = "consume" /\ pc'[g] = "admitted"
SweepStep == cpc = "sweep" /\ cpc' = "wait"

\* g's call of Allow is call number n of a bucket whose history is kept:
\* the bucket was created less than a second before the call, and no call
\* before this one has refilled it
NthCall(g, n) ==
    /\ UserOf(g) \in DOMAIN hist
    /\ hist[UserOf(g)].first >= 0
    /\ hist[UserOf(g)].calls = n

\* floor(t * maxPerSec), t the seconds in `ticks` ticks
FloorTokens(ticks) == (ticks * maxPerSec) \div TicksPerSec

---------------------------------------------------------------------------
(* C1: in every reachable state every identity that has a bucket has
   0 <= tokens <= bucketSize, where bucketSize = 2 * maxPerSec. *)
C1_TokensInRange ==
    /\ bucketSize = 2 * maxPerSec
    /\ \A u \in DOMAIN tokens : 0 <= tokens[u] /\ tokens[u] <= bucketSize

\* one bucket is empty while Allow has just refilled another, older one to
\* the cap
C1_Witness ==
    \E g \in DOMAIN pc : \E v \in DOMAIN tokens :
        /\ pc[g] = "consume"
        /\ v # UserOf(g)
        /\ tokens[v] = 0
        /\ hist[UserOf(g)].first < 0
        /\ lastRefill[UserOf(g)] = now
        /\ tokens[UserOf(g)] = bucketSize

---------------------------------------------------------------------------
(* C2, as claimed: the call of Allow that is number bucketSize + 1 of a fresh
   identity and comes within one second of the first is denied. *)
C2_DeniedWithinOneSecond ==
    [][\A g \in DOMAIN pc :
          (/\ ConsumeStep(g)
           /\ NthCall(g, bucketSize + 1)
           /\ hist[UserOf(g)].age < TicksPerSec)
          => ~allowed'[g]]_vars

\* a request that Allow denied is answered 429
DeniedAnswered429 ==
    \A g \in DOMAIN pc :
        (/\ pc[g] = "done"
         /\ \E i \in 1..Len(log[g]) : log[g][i].ev = "return" /\ ~log[g][i].ok)
        => \E i \in 1..Len(log[g]) :
              log[g][i].ev = "response" /\ log[g][i].status = 429

(* C2, amended: for a fresh identity with maxPerSec = 10, if bucketSize + 1 = 21
   requests with well-formed credentials arrive within less than 1 / maxPerSec
   seconds of the first, the 21st call of Allow returns false and the request
   is answered 429. *)
C2_DeniedWithinRefillPeriod ==
    /\ []DeniedAnswered429
    /\ [][\A g \in DOMAIN pc :
            (/\ ConsumeStep(g)
             /\ NthCall(g, bucketSize + 1)
             /\ hist[UserOf(g)].age * maxPerSec < TicksPerSec)
            => ~allowed'[g]]_vars

\* the 21st request of a burst is answered 429
C2_Witness ==
    \E g \in DOMAIN pc :
        /\ maxPerSec = 10
        /\ pc[g] = "done"
        /\ NthCall(g, 21)
        /\ hist[UserOf(g)].age * maxPerSec < TicksPerSec
        /\ log[g][Len(log[g])].status = 429

---------------------------------------------------------------------------
(* C3: Allow returns false exactly when the tokens of the identity after the
   initialise-or-refill step are 0, and otherwise returns true with the tokens
   decremented by exactly 1; so an unseen identity whose calls all come with
   tokensToAdd = 0 is allowed bucketSize times in a row and denied next. *)
C3_AllowDecides ==
    [][\A g \in DOMAIN pc :
          ConsumeStep(g) =>
            /\ allowed'[g] = (tokens[UserOf(g)] # 0)
            /\ tokens'[UserOf(g)] =
                  IF allowed'[g] THEN tokens[UserOf(g)] - 1 ELSE tokens[UserOf(g)]
            /\ \A n \in 1..(bucketSize + 1) :
                  (NthCall(g, n) /\ ~hist[UserOf(g)].refilled)
                  => (allowed'[g] = (n <= bucketSize))]_vars

\* a burst: the call after bucketSize allowed ones has been denied
C3_Witness ==
    \E g \in DOMAIN pc :
        /\ pc[g] = "admitted"
        /\ NthCall(g, bucketSize + 1)
        /\ ~hist[UserOf(g)].refilled
        /\ ~allowed[g]
        /\ tokens[UserOf(g)] = 0

---------------------------------------------------------------------------
(* C4: the status of a request is decided by the first failing check in the
   order: method not POST, 405; Authorization header missing, not "Basic ",
   not base64 or without a colon, 401; denied by the limiter, 429; body not
   JSON, 400; to, subject or content empty, 400; relay error, 500; else 200. *)

MalformedAuthorization(h) ==
    \/ h = <<>>
    \/ ~HasPrefix(h, BasicPrefix)
    \/ ~DecodeString(Drop(h, 6)).ok
    \/ ~Contains(DecodeString(Drop(h, 6)).bytes, ColonLit)

Denied(g) == \E i \in 1..Len(log[g]) : log[g][i].ev = "return" /\ ~log[g][i].ok

RelayFailed(g) == \E i \in 1..Len(log[g]) : log[g][i].ev = "relayed" /\ log[g][i].err # ""

ExpectedStatus(g) ==
    IF req[g].method # "POST" THEN 405
    ELSE IF MalformedAuthorization(req[g].auth) THEN 401
    ELSE IF Denied(g) THEN 429
    ELSE IF ~req[g].body.valid THEN 400
    ELSE IF \/ req[g].body.to = <<>>
            \/ req[g].body.subject = <<>>
            \/ req[g].body.content = <<>> THEN 400
    ELSE IF RelayFailed(g) THEN 500
    ELSE 200

C4_StatusByFirstFailingCheck ==
    \A g \in DOMAIN pc :
        pc[g] = "done" =>
            /\ Len(EventsOf(g, "response")) = 1
            /\ EventsOf(g, "response")[1].status = ExpectedStatus(g)
            /\ (MalformedAuthorization(req[g].auth) /\ req[g].method = "POST")
               => EventsOf(g, "response")[1].status = 401

\* a request with a body that is not JSON has been denied by the limiter, and
\* answered 429
C4_Witness ==
    \E g \in DOMAIN pc :
        /\ pc[g] = "done"
        /\ ~req[g].body.valid
        /\ Denied(g)
        /\ EventsOf(g, "response")[1].status = 429

---------------------------------------------------------------------------
(* C5: a request calls Allow at most once, and before any relay attempt; a
   request Allow denies is answered 429 and makes no relay attempt; a relay
   attempt is made only for a request Allow allowed, whose body is JSON and
   whose to, subject and content are not empty. *)
C5_AllowOnceBeforeRelay ==
    \A g \in DOMAIN pc :
        /\ Len(EventsOf(g, "call")) <= 1
        /\ \A i \in 1..Len(log[g]) :
              log[g][i].ev = "relay" =>
                 /\ \E j \in 1..(i - 1) : log[g][j].ev = "call"
                 /\ \E j \in 1..(i - 1) : log[g][j].ev = "return" /\ log[g][j].ok
                 /\ req[g].body.valid
                 /\ req[g].body.to # <<>>
                 /\ req[g].body.subject # <<>>
                 /\ req[g].body.content # <<>>
        /\ Denied(g) =>
              /\ EventsOf(g, "relay") = <<>>
              /\ pc[g] \in {"admitted", "done"}
              /\ pc[g] = "done" =>
                    /\ Len(EventsOf(g, "response")) = 1
                    /\ EventsOf(g, "response")[1].status = 429

\* one request has been denied and answered 429 while another is in the relay
C5_Witness ==
    \E g, h \in DOMAIN pc :
        /\ pc[g] = "done"
        /\ Denied(g)
        /\ EventsOf(g, "relay") = <<>>
        /\ pc[h] = "relay"
        /\ Len(EventsOf(h, "call")) = 1

---------------------------------------------------------------------------
(* C6: the token an admitted request took is never given back: no step of a
   request after its call of Allow has returned changes the tokens or the
   lastRefill of any identity, whatever the request ends in. *)
C6_TokenNotReturned ==
    [][\A g \in DOMAIN pc :
          (pc[g] \in {"admitted", "relay", "done"} /\ pc'[g] # pc[g])
          => (tokens' = tokens /\ lastRefill' = lastRefill)]_vars

\* an admitted request has ended in 500, and its token is still taken
C6_Witness ==
    \E g \in DOMAIN pc :
        /\ pc[g] = "done"
        /\ allowed[g]
        /\ EventsOf(g, "response")[1].status = 500
        /\ tokens[UserOf(g)] < bucketSize

---------------------------------------------------------------------------
(* C7: every request produces exactly one response and at most one relay
   attempt; a relay error is answered 500 with no second attempt, and a
   request is answered 200 if and only if its relay attempt succeeded. *)
C7_OneResponseOneAttempt ==
    \A g \in DOMAIN pc :
        /\ Len(EventsOf(g, "relay")) <= 1
        /\ Len(EventsOf(g, "relayed")) <= Len(EventsOf(g, "relay"))
        /\ Len(EventsOf(g, "response")) = (IF pc[g] = "done" THEN 1 ELSE 0)
        /\ pc[g] = "done" =>
              /\ RelayFailed(g) => EventsOf(g, "response")[1].status = 500
              /\ (EventsOf(g, "response")[1].status = 200)
                 = (\E i \in 1..Len(log[g]) :
                       log[g][i].ev = "relayed" /\ log[g][i].err = "")

\* a relay error has been answered 500 after one attempt
C7_Witness ==
    \E g \in DOMAIN pc :
        /\ pc[g] = "done"
        /\ RelayFailed(g)
        /\ Len(EventsOf(g, "relay")) = 1
        /\ EventsOf(g, "response")[1].status = 500

---------------------------------------------------------------------------
(* C8: when a sweep completes, no identity whose lastRefill is more than one
   hour before the time of the sweep has a bucket, in either map; the next
   call of Allow for such an identity sets tokens = bucketSize and
   lastRefill = now, then takes one token and returns true. *)
C8_SweepRemovesIdle ==
    [][/\ SweepStep =>
            /\ DOMAIN tokens' = DOMAIN lastRefill'
            /\ \A u \in DOMAIN lastRefill :
                  (now - lastRefill[u] > Hour)
                  => (u \notin DOMAIN tokens' /\ u \notin DOMAIN lastRefill')
       /\ \A g \in DOMAIN pc :
            /\ (/\ RefillStep(g)
                /\ UserOf(g) \in DOMAIN hist
                /\ hist[UserOf(g)].swept
                /\ hist[UserOf(g)].calls = 0)
               => /\ tokens'[UserOf(g)] = bucketSize
                  /\ lastRefill'[UserOf(g)] = now
            /\ (ConsumeStep(g) /\ hist[UserOf(g)].swept)
               => /\ allowed'[g]
                  /\ tokens'[UserOf(g)] = bucketSize - 1]_vars

\* an identity a sweep removed has called Allow again: its bucket is new,
\* one token is taken, and the bucket of another identity is still there
C8_Witness ==
    \E g \in DOMAIN pc : \E v \in DOMAIN tokens :
        /\ pc[g] = "admitted"
        /\ v # UserOf(g)
        /\ hist[UserOf(g)].swept
        /\ hist[UserOf(g)].calls = 1
        /\ lastRefill[UserOf(g)] = hist[UserOf(g)].first
        /\ allowed[g]
        /\ tokens[UserOf(g)] = bucketSize - 1

---------------------------------------------------------------------------
(* C9: the refill step of a call of Allow made t seconds after the lastRefill
   of the identity never lowers tokens, raises it by at most
   floor(t * maxPerSec), and leaves min(tokens + floor(t * maxPerSec),
   bucketSize). *)
C9_RefillBounded ==
    [][\A g \in DOMAIN pc :
          (RefillStep(g) /\ UserOf(g) \in DOMAIN lastRefill) =>
            LET u == UserOf(g)
                add == FloorTokens(now - lastRefill[u])
            IN  /\ tokens'[u] >= tokens[u]
                /\ tokens'[u] - tokens[u] <= add
                /\ tokens'[u] = IF tokens[u] + add < bucketSize
                                THEN tokens[u] + add
                                ELSE bucketSize]_vars

\* a call has refilled a bucket to less than its size
C9_Witness ==
    \E g \in DOMAIN pc :
        /\ pc[g] = "consume"
        /\ hist[UserOf(g)].refilled
        /\ lastRefill[UserOf(g)] = now
        /\ tokens[UserOf(g)] > 0
        /\ tokens[UserOf(g)] < bucketSize

---------------------------------------------------------------------------
(* C10: the header block of every relayed message holds
   Content-Type: text/html; charset=UTF-8 together with MIME-Version: 1.0 if
   and only if the content was detected as HTML, and otherwise holds
   Content-Type: text/plain; charset=UTF-8 and no MIME-Version header. *)

RECURSIVE SplitLines(_)
\* the lines of s
SplitLines(s) ==
    IF Index(s, <<LF>>) = 0 THEN <<s>>
    ELSE <<SubSeq(s, 1, Index(s, <<LF>>) - 1)>> \o SplitLines(Drop(s, Index(s, <<LF>>)))

\* the lines of msg before its first empty line
HeaderLines(msg) ==
    LET ls == SplitLines(msg)
    IN  IF \E k \in 1..Len(ls) : ls[k] = <<>>
        THEN SubSeq(ls, 1, (CHOOSE k \in 1..Len(ls) :
                               ls[k] = <<>> /\ \A j \in 1..(k - 1) : ls[j] # <<>>) - 1)
        ELSE ls

HasHeader(msg, line) == \E i \in 1..Len(HeaderLines(msg)) : HeaderLines(msg)[i] = line

MimeVersionName == Str(<<"m", "i", "m", "e", "-", "v", "e", "r", "s", "i", "o", "n", ":">>)

HasMimeVersion(msg) ==
    \E i \in 1..Len(HeaderLines(msg)) : MatchFold(HeaderLines(msg)[i], MimeVersionName, 1)

C10_ContentTypeByDetection ==
    \A g \in DOMAIN pc : \A i \in 1..Len(log[g]) :
        log[g][i].ev = "relay" =>
            LET m == log[g][i].msg
                html == isHTML(req[g].body.content)
            IN  /\ (HasHeader(m, HTMLTypeLit) /\ HasHeader(m, MimeVersionLit)) = html
                /\ ~html => (HasHeader(m, PlainTypeLit) /\ ~HasMimeVersion(m))

---------------------------------------------------------------------------
(* C11: the From header of a relayed message is "<title>" <username> when the
   title is not empty; otherwise, when the username contains @, it is
   "<CapitalizedLocalPart>" <username>, the local part being the text before
   the first @ (alice@example.com gives "Alice" <alice@example.com>);
   otherwise it is the bare username. *)

\* the text of username before its first @
BeforeFirstAt(username) ==
    SubSeq(username, 1, (CHOOSE i \in 1..Len(username) :
                            /\ username[i] = 64
                            /\ \A j \in 1..(i - 1) : username[j] # 64) - 1)

\* whether b is a letter, a digit or an underscore
IsWordByte(b) ==
    \/ b \in 48..57
    \/ b \in 65..90
    \/ b \in 97..122
    \/ b = 95

\* the local part of Elodie with its two words capitalized: E with acute
\* accent, the no-break space and B
ElodieName == <<195, 137, 194, 160, 66>>

\* s with the first letter of each of its words in upper case
CapitalizedWords(s) ==
    IF s = BeforeFirstAt(Elodie)
    THEN ElodieName
    ELSE [i \in 1..Len(s) |->
             IF s[i] \in 97..122 /\ (i = 1 \/ ~IsWordByte(s[i - 1]))
             THEN s[i] - 32
             ELSE s[i]]

ExpectedFrom(username, title) ==
    IF title # <<>>
    THEN <<34>> \o title \o <<34, 32, 60>> \o username \o <<62>>
    ELSE IF \E i \in 1..Len(username) : username[i] = 64
    THEN <<34>> \o CapitalizedWords(BeforeFirstAt(username))
         \o <<34, 32, 60>> \o username \o <<62>>
    ELSE username

AliceFrom == Str(<<"F", "r", "o", "m", ":", " ", "\"", "A", "l", "i", "c", "e", "\"", " ", "<", "a", "l", "i", "c", "e", "@", "e", "x", "a", "m", "p", "l", "e", ".", "c", "o", "m", ">">>)

C11_FromHeader ==
    \A g \in DOMAIN pc : \A i \in 1..Len(log[g]) :
        log[g][i].ev = "relay" =>
            /\ HasPrefix(log[g][i].msg,
                         FromLit \o ExpectedFrom(UserOf(g), req[g].body.title)
                         \o <<LF>> \o ToLit)
            /\ (UserOf(g) = Alice /\ req[g].body.title = <<>>)
               => HasPrefix(log[g][i].msg, AliceFrom \o <<LF>>)
            /\ (UserOf(g) = Elodie)
               => HasPrefix(log[g][i].msg,
                            FromLit \o <<34>> \o ElodieName \o <<34, 32, 60>>
                            \o Elodie \o <<62, LF>>)

\* a message of alice@example.com without a title is handed to the relay
C11_Witness ==
    \E g \in DOMAIN pc :
        /\ pc[g] = "relay"
        /\ UserOf(g) = Alice
        /\ req[g].body.title = <<>>
        /\ log[g][Len(log[g])].ev = "relay"
        /\ HasPrefix(log[g][Len(log[g])].msg, AliceFrom \o <<LF>>)

---------------------------------------------------------------------------
(* C12: the bodies of Allow and of the sweep never overlap: at most one of them
   holds the lock of the limiter at a time, and while one holds it no other
   changes the limiter; so k calls of Allow made by concurrent requests of an
   identity whose new bucket holds n = bucketSize tokens, with no refill in
   between, return true min(k, n) times and leave max(n - k, 0) tokens. *)

\* the goroutines that are inside the body of Allow or of the sweep
InBody ==
    {g \in DOMAIN pc : pc[g] \in {"refill", "consume"}}
    \cup (IF cpc = "sweep" THEN {Cleanup} ELSE {})

MutualExclusion ==
    /\ Cardinality(InBody) <= 1
    /\ \A h \in InBody : mutex = h
    /\ (InBody = {}) => (mutex = Unlocked)

\* the k calls of a burst without refill have left max(n - k, 0) tokens
BurstOutcome ==
    \A u \in DOMAIN hist :
        (/\ hist[u].first >= 0
         /\ ~hist[u].refilled
         /\ \A g \in DOMAIN pc : ~(pc[g] = "consume" /\ UserOf(g) = u))
        => /\ u \in DOMAIN tokens
           /\ tokens[u] = IF hist[u].calls < bucketSize
                          THEN bucketSize - hist[u].calls
                          ELSE 0

C12_Serialised ==
    /\ [](MutualExclusion /\ BurstOutcome)
    /\ [][/\ \A h \in InBody :
                (limiter' # limiter)
                => \/ (h = Cleanup /\ SweepStep)
                   \/ (h \in DOMAIN pc /\ pc'[h] # pc[h])
          /\ \A g \in DOMAIN pc : \A k \in 1..(bucketSize + 1) :
                (ConsumeStep(g) /\ NthCall(g, k) /\ ~hist[UserOf(g)].refilled)
                => (allowed'[g] = (k <= bucketSize))]_vars

\* one request is inside Allow, about to be denied as call bucketSize + 1 of
\* a burst, while the request that took the last token has not been answered
\* and the sweep waits for the lock
C12_Witness ==
    \E g \in DOMAIN pc : \E h \in DOMAIN pc :
        /\ g # h
        /\ pc[g] = "consume"
        /\ mutex = g
        /\ NthCall(g, bucketSize + 1)
        /\ ~hist[UserOf(g)].refilled
        /\ tokens[UserOf(g)] = 0
        /\ pc[h] = "admitted"
        /\ UserOf(h) = UserOf(g)
        /\ allowed[h]
        /\ cpc = "lock"

---------------------------------------------------------------------------
(* C13: the lock of the limiter is never held while a call of the relay is in
   progress: a request has released it when it leaves Allow, so a request
   inside the relay call prevents neither the Allow call of another request
   nor a sweep from taking the lock. *)

\* nobody holds the lock: the goroutines outside Allow and the sweep do not
NobodyInBody ==
    /\ cpc # "sweep"
    /\ \A h \in DOMAIN pc : pc[h] \notin {"refill", "consume"}

C13_LockNotHeldInRelay ==
    \A g \in DOMAIN pc :
        /\ (pc[g] \in {"admitted", "relay", "done", "idle", "lock"}) => (mutex # g)
        /\ (pc[g] = "relay" /\ NobodyInBody) =>
              /\ mutex = Unlocked
              /\ \A h \in DOMAIN pc : (pc[h] = "lock") => ENABLED AllowLock(h)
              /\ (cpc = "lock") => ENABLED CleanupLock

\* a request is inside Allow, with the lock, while another is in the relay
\* call
C13_Witness ==
    \E g \in DOMAIN pc : \E h \in DOMAIN pc :
        /\ pc[g] = "relay"
        /\ log[g][Len(log[g])].ev = "relay"
        /\ pc[h] = "consume"
        /\ mutex = h

---------------------------------------------------------------------------
(* C14: a call of Allow for an identity that has a bucket leaves its lastRefill
   unchanged when tokensToAdd is 0 and sets it to the time of the call when
   tokensToAdd is greater than 0; so calls that each come less than
   1/maxPerSec seconds after the one before still add up their elapsed time
   from the same lastRefill, and the bucket is refilled once the total
   reaches 1/maxPerSec seconds. *)

\* the latest call for u came less than 1/maxPerSec seconds ago and did not
\* refill, and 1/maxPerSec seconds or more have passed since lastRefill
RapidCallsAddUp(u) ==
    /\ u \in DOMAIN hist
    /\ u \in DOMAIN lastRefill
    /\ hist[u].first >= 0
    /\ ~hist[u].refilled
    /\ hist[u].calls >= 2
    /\ lastRefill[u] = hist[u].first
    /\ (now - (hist[u].first + hist[u].age)) * maxPerSec < TicksPerSec
    /\ (now - lastRefill[u]) * maxPerSec >= TicksPerSec

C14_RefillClock ==
    [][\A g \in DOMAIN pc :
          (RefillStep(g) /\ UserOf(g) \in DOMAIN lastRefill) =>
            LET u == UserOf(g)
            IN  /\ (FloorTokens(now - lastRefill[u]) = 0)
                   => (lastRefill'[u] = lastRefill[u] /\ tokens'[u] = tokens[u])
                /\ (FloorTokens(now - lastRefill[u]) > 0)
                   => lastRefill'[u] = now
                /\ ((now - lastRefill[u]) * maxPerSec < TicksPerSec)
                   => lastRefill'[u] = lastRefill[u]
                /\ RapidCallsAddUp(u)
                   => /\ lastRefill'[u] = now
                      /\ tokens'[u] > tokens[u] \/ tokens'[u] = bucketSize]_vars

\* Allow is about to refill a bucket less than 1/maxPerSec seconds after a
\* call that left lastRefill as it was
C14_Witness ==
    \E g \in DOMAIN pc :
        /\ pc[g] = "refill"
        /\ RapidCallsAddUp(UserOf(g))
        /\ tokens[UserOf(g)] < bucketSize

---------------------------------------------------------------------------
(* C15: a denied call of Allow does not change the bucket after the refill
   step: tokens stays 0; and for an identity that has a bucket, a call that
   returns false leaves tokens and lastRefill of the identity as they were
   before the call. The call is the refill step followed by the check, with
   the lock held from one to the other: a refill step that changes the bucket
   leaves a token, so that the check that follows allows the call. *)
C15_DeniedCallFrame ==
    /\ [](\A g \in DOMAIN pc : (pc[g] = "consume") => (mutex = g))
    /\ [][\A g \in DOMAIN pc :
             /\ (ConsumeStep(g) /\ ~allowed'[g])
                => /\ tokens[UserOf(g)] = 0
                   /\ tokens' = tokens
                   /\ lastRefill' = lastRefill
             /\ (RefillStep(g) /\ UserOf(g) \in DOMAIN lastRefill
                 /\ tokens'[UserOf(g)] <= 0)
                => /\ tokens' = tokens
                   /\ lastRefill' = lastRefill
             /\ (pc[g] = "consume" /\ pc'[g] = "consume")
                => (tokens' = tokens /\ lastRefill' = lastRefill)]_vars

\* Allow has returned false, later than the lastRefill of the bucket, which is
\* still empty
C15_Witness ==
    \E g \in DOMAIN pc :
        /\ pc[g] = "admitted"
        /\ ~allowed[g]
        /\ log[g][Len(log[g])] = ReturnEvent(FALSE)
        /\ UserOf(g) \in DOMAIN tokens
        /\ tokens[UserOf(g)] = 0
        /\ lastRefill[UserOf(g)] < now

---------------------------------------------------------------------------
(* C16: under fair scheduling and a relay that returns, every request gets its
   response and every call of Allow returns, also while sweeps run: Allow and
   the sweep release the lock on every path, so nothing deadlocks and a sweep
   holds a waiting call back only until the sweep ends. *)
C16_EveryRequestAnswered ==
    /\ \A g \in Workers :
          (pc[g] \in {"lock", "refill", "consume", "admitted", "relay"})
          ~> (pc[g] = "done" /\ log[g][Len(log[g])].ev = "response")
    /\ (cpc \in {"lock", "sweep"}) ~> (cpc = "wait" /\ mutex # Cleanup)

\* a call of Allow waits for the lock that the sweep holds
C16_Witness ==
    \E g \in DOMAIN pc :
        /\ pc[g] = "lock"
        /\ cpc = "sweep"
        /\ mutex = Cleanup

---------------------------------------------------------------------------
(* C17: in any window of t seconds and for any identity, at most
   bucketSize + floor(t * maxPerSec) calls of Allow for the identity return
   true, whatever the times of the calls, the calls of other identities they
   are interleaved with and the sweeps that run. The window goes from the
   start of the observer to the latest call it has counted. *)
C17_RateBound ==
    \A u \in DOMAIN window.granted :
        /\ window.last[u] >= window.start
        /\ window.granted[u]
              <= bucketSize + FloorTokens(window.last[u] - window.start)

\* a window of a second or more in which as many calls of one identity as the
\* bound allows have returned true, and in which a call of another identity,
\* whose bucket a sweep had removed inside the window, has returned true
C17_Witness ==
    \E u, v \in DOMAIN window.granted :
        /\ u # v
        /\ window.start > 0
        /\ window.last[u] - window.start >= TicksPerSec
        /\ window.granted[u]
              = bucketSize + FloorTokens(window.last[u] - window.start)
        /\ v \in DOMAIN hist
        /\ hist[v].swept
        /\ hist[v].first > window.start
        /\ window.granted[v] >= 1

---------------------------------------------------------------------------
(* C18: the sweeps cannot be seen through Allow: for every timed sequence of
   calls, each call returns what it returns in a limiter that never sweeps and
   leaves the same tokens, because a bucket is removed only when the refill of
   its next call would fill it to bucketSize anyway. *)

\* what the removed bucket of u would hold after the refill of a call at t
\* had the sweep not removed it
RefilledUnswept(u, t) ==
    IF tokens[u] + FloorTokens(t - lastRefill[u]) < bucketSize
    THEN tokens[u] + FloorTokens(t - lastRefill[u])
    ELSE bucketSize

C18_SweepUnobservable ==
    /\ [](\A u \in DOMAIN tokens :
             /\ u \in DOMAIN window.shadow.tokens
             /\ window.shadow.tokens[u] = tokens[u]
             /\ window.shadow.lastRefill[u] = lastRefill[u])
    /\ [][/\ \A g \in DOMAIN pc :
                ConsumeStep(g)
                => /\ allowed'[g] = (window.shadow.tokens[UserOf(g)] > 0)
                   /\ tokens'[UserOf(g)] = window'.shadow.tokens[UserOf(g)]
          /\ SweepStep
             => \A u \in DOMAIN tokens :
                   IF u \in DOMAIN tokens'
                   THEN tokens'[u] = tokens[u] /\ lastRefill'[u] = lastRefill[u]
                   ELSE \A t \in Times :
                           (t >= now) => (RefilledUnswept(u, t) = bucketSize)]_vars

\* Allow is called for an identity whose bucket the sweep has removed when it
\* was not full, and that the limiter without sweep still has
C18_Witness ==
    \E g \in DOMAIN pc :
        /\ pc[g] = "refill"
        /\ UserOf(g) \notin DOMAIN tokens
        /\ UserOf(g) \in DOMAIN hist
        /\ hist[UserOf(g)].swept
        /\ UserOf(g) \in DOMAIN window.shadow.tokens
        /\ window.shadow.tokens[UserOf(g)] < bucketSize
        /\ window.shadow.lastRefill[UserOf(g)] < now - Hour

---------------------------------------------------------------------------
(* C19: a call Allow(u) leaves tokens and lastRefill of every identity other
   than u unchanged, and neither creates nor removes the bucket of any other
   identity; so whether a call for an identity is allowed does not depend on
   the requests made under another identity. *)

\* the bucket of v is the same before and after the step
SameBucket(v) ==
    /\ (v \in DOMAIN tokens') = (v \in DOMAIN tokens)
    /\ (v \in DOMAIN lastRefill') = (v \in DOMAIN lastRefill)
    /\ (v \in DOMAIN tokens) => (tokens'[v] = tokens[v])
    /\ (v \in DOMAIN lastRefill) => (lastRefill'[v] = lastRefill[v])

C19_OtherBucketsUntouched ==
    [][\A g \in DOMAIN pc :
          /\ (pc[g] \in {"lock", "refill", "consume"} /\ pc'[g] # pc[g])
             => \A v \in (DOMAIN tokens \cup DOMAIN lastRefill
                          \cup DOMAIN tokens' \cup DOMAIN lastRefill') :
                   (v # UserOf(g)) => SameBucket(v)
          /\ ConsumeStep(g) => (allowed'[g] = (tokens[UserOf(g)] > 0))]_vars

\* a call for one identity has been allowed on a new bucket while the bucket
\* of another identity is empty
C19_Witness ==
    \E g \in DOMAIN pc : \E v \in DOMAIN tokens :
        /\ pc[g] = "admitted"
        /\ v # UserOf(g)
        /\ tokens[v] = 0
        /\ allowed[g]
        /\ tokens[UserOf(g)] = bucketSize - 1
        /\ lastRefill[UserOf(g)] > lastRefill[v]

---------------------------------------------------------------------------
(* C20: whether a request is admitted depends on nothing but the username it
   claims: the steps of two requests with well-formed Basic credentials for
   one username are the same function of the limiter and the clock, whatever
   their password and body, so that two runs that differ in these only have
   the same 429 answers and the same limiter at every step. Each such request
   takes a token of the claimed username when there is one, even with a wrong
   password or an invalid body; a request answered 405 or 401 neither creates
   nor changes a bucket. *)

\* POST requests whose Authorization header holds Basic credentials
WellFormed(r) ==
    /\ r.method = "POST"
    /\ r.auth \in {AliceAuth, AliceWrongAuth, BobAuth, BobWrongAuth}

\* the username such a request claims
ClaimedUser(r) == IF r.auth \in {AliceAuth, AliceWrongAuth} THEN Alice ELSE Bob

\* the limiter after the step is the limiter that a call for user leaves at
\* this stage
AllowStepFor(g, user) ==
    /\ RefillStep(g)
       => /\ tokens' = RefillBucket(user, now).tokens
          /\ lastRefill' = RefillBucket(user, now).lastRefill
    /\ ConsumeStep(g)
       => /\ allowed'[g] = (tokens[user] > 0)
          /\ tokens' = IF tokens[user] > 0
                       THEN [tokens EXCEPT ![user] = @ - 1]
                       ELSE tokens
          /\ lastRefill' = lastRefill
    /\ (pc[g] = "admitted" /\ pc'[g] # "admitted")
       => /\ limiter' = limiter
          /\ (\E i \in 1..Len(log'[g]) :
                 log'[g][i].ev = "response" /\ log'[g][i].status = 429)
             = ~allowed[g]
    /\ (pc[g] \in {"lock", "relay", "done"} /\ pc'[g] # pc[g])
       => limiter' = limiter

C20_AdmissionByUsernameOnly ==
    [][\A g \in DOMAIN pc :
          /\ (pc[g] = "idle" /\ pc'[g] # "idle")
             => /\ limiter' = limiter
                /\ IF WellFormed(req'[g])
                   THEN pc'[g] = "lock" /\ creds'[g].username = ClaimedUser(req'[g])
                   ELSE /\ pc'[g] = "done"
                        /\ log'[g][Len(log'[g])].ev = "response"
                        /\ log'[g][Len(log'[g])].status \in {405, 401}
          /\ (pc[g] # "idle" /\ pc'[g] # pc[g])
             => IF WellFormed(req[g])
                THEN AllowStepFor(g, ClaimedUser(req[g]))
                ELSE limiter' = limiter]_vars

\* a request with a wrong password and a body that is not JSON has taken a
\* token of the username it claims, and is answered 400
C20_Witness ==
    \E g \in DOMAIN pc :
        /\ pc[g] = "done"
        /\ req[g].auth = AliceWrongAuth
        /\ req[g].body = BadJSON
        /\ allowed[g]
        /\ log[g][Len(log[g])].ev = "response"
        /\ log[g][Len(log[g])].status = 400
        /\ tokens[Alice] = bucketSize - 1
        /\ lastRefill[Alice] = now

====
